---- MODULE Spec2Model ----
(***************************************************************************)
(* ReusableHuffman (src/src/compression_utils.py): a Huffman codec that is *)
(* fit to a corpus once and then compresses / decompresses messages.       *)
(*                                                                         *)
(* Characters are modelled by their code points, bitstrings by sequences   *)
(* of 0/1, bytes by 0..255, Optional[HuffmanNode] by a sequence of length  *)
(* 0 (None) or 1, and a dict by a function on its key set.  Dict objects   *)
(* live in a store (dicts) and are named by references, so that returning  *)
(* a copy and returning the object itself are different things.            *)
(***************************************************************************)
EXTENDS Integers, Sequences, FiniteSets, TLC

VARIABLES corpus, pc, chars, leaves, trie_root, encoding_map, dicts, held, call

vars == <<corpus, pc, chars, leaves, trie_root, encoding_map, dicts, held, call>>

----------------------------------------------------------------------------
(* Bounds and input sets *)

MaxCorpusLen == 5
MaxTrainLen == 3
MaxMsgLen == 3
MaxBytes == 2
MaxCallerCorpusLen == 2
MaxCallerMsgLen == 2
MaxHeld == 1
MaxExtBits == 3

ETB_CHAR == 23

\* "\n", ETB, "A", "B", "C": the characters of the corpora of SpecBuild
Alphabet == {10, ETB_CHAR, 65, 66, 67}

\* the characters of the corpora and messages of Spec
TextAlphabet == {10, ETB_CHAR, 65, 66}

\* the characters of the corpora and messages of SpecCaller
CallerAlphabet == {65, 66}

\* the keys a caller sets or deletes in a dict it was handed
CallerKeys == {ETB_CHAR, 65, 67}

\* 00000000, 00000001, 01010101, 01101100, 10100011, 11100000, 11111111
ByteValues == {0, 1, 85, 108, 163, 224, 255}

SeqsUpTo(S, n) == UNION {[1..k -> S] : k \in 0..n}

----------------------------------------------------------------------------
(* HuffmanNode *)

None == << >>

HuffmanNode(char, freq, zero_child, one_child) ==
    [char |-> char, freq |-> freq, zero_child |-> zero_child, one_child |-> one_child]

is_leaf(node) == node.zero_child = None /\ node.one_child = None

LtFreqOnly(self, other) == self.freq < other.freq

Lt(self, other) ==
    IF self.freq = other.freq THEN self.char < other.char ELSE self.freq < other.freq

----------------------------------------------------------------------------
(* queue.PriorityQueue: put is heapq.heappush, get is heapq.heappop, on a  *)
(* list kept as a binary heap (here 1-based: the parent of pos is pos/2).  *)

RECURSIVE siftdown(_, _, _, _)
siftdown(heap, startpos, pos, newitem) ==
    IF pos > startpos /\ Lt(newitem, heap[pos \div 2])
    THEN siftdown([heap EXCEPT ![pos] = heap[pos \div 2]], startpos, pos \div 2, newitem)
    ELSE [heap EXCEPT ![pos] = newitem]

RECURSIVE siftup(_, _, _, _)
siftup(heap, startpos, pos, newitem) ==
    LET childpos == 2 * pos
        rightpos == childpos + 1
        smaller == IF rightpos <= Len(heap) /\ ~Lt(heap[childpos], heap[rightpos])
                   THEN rightpos ELSE childpos
    IN  IF childpos <= Len(heap)
        THEN siftup([heap EXCEPT ![pos] = heap[smaller]], startpos, smaller, newitem)
        ELSE siftdown(heap, startpos, pos, newitem)

heappush(heap, item) == siftdown(Append(heap, item), 1, Len(heap) + 1, item)

\* the queue left by get(); the item returned is heap[1]
heappop(heap) ==
    LET lastelt == heap[Len(heap)]
        rest == SubSeq(heap, 1, Len(heap) - 1)
    IN  IF rest = << >> THEN rest ELSE siftup(rest, 1, 1, lastelt)

----------------------------------------------------------------------------
(* Construction *)

count(str, item) == Cardinality({i \in DOMAIN str : str[i] = item})

set(str) == {str[i] : i \in DOMAIN str}

etb_node == HuffmanNode(ETB_CHAR, 1, None, None)

MergeDropFreq(trie) ==
    LET zero_item == trie[1]
        rest == heappop(trie)
        one_item == rest[1]
        new_char == IF zero_item.char > one_item.char THEN one_item.char ELSE zero_item.char
    IN  heappush(heappop(rest),
                 HuffmanNode(new_char, one_item.freq, <<zero_item>>, <<one_item>>))

\* one iteration of the while loop of grow_trie
Merge(trie) ==
    LET zero_item == trie[1]
        rest == heappop(trie)
        one_item == rest[1]
        new_char == IF zero_item.char > one_item.char THEN one_item.char ELSE zero_item.char
    IN  heappush(heappop(rest),
                 HuffmanNode(new_char, zero_item.freq + one_item.freq,
                             <<zero_item>>, <<one_item>>))

RECURSIVE grow_trie(_)
grow_trie(trie) == IF Len(trie) > 1 THEN grow_trie(Merge(trie)) ELSE trie[1]

RECURSIVE EncodingMapSameByte(_, _)
EncodingMapSameByte(node, byte) ==
    IF node = None THEN << >>
    ELSE IF is_leaf(node[1]) THEN (node[1].char :> byte)
    ELSE EncodingMapSameByte(node[1].one_child, byte)
         @@ EncodingMapSameByte(node[1].zero_child, Append(byte, 0))

\* dict.update: the entries of the one_child side replace equal keys
RECURSIVE create_encoding_map(_, _)
create_encoding_map(node, byte) ==
    IF node = None THEN << >>
    ELSE IF is_leaf(node[1]) THEN (node[1].char :> byte)
    ELSE create_encoding_map(node[1].one_child, Append(byte, 1))
         @@ create_encoding_map(node[1].zero_child, Append(byte, 0))

----------------------------------------------------------------------------
(* byte_utils: an 8-character bitstring <-> a byte, most significant bit   *)
(* first.                                                                  *)

byte_to_bitstring(byte) == [i \in 1..8 |-> (byte \div (2 ^ (8 - i))) % 2]

RECURSIVE bitstring_to_int(_)
bitstring_to_int(bitstr) ==
    IF bitstr = << >> THEN 0
    ELSE 2 * bitstring_to_int(SubSeq(bitstr, 1, Len(bitstr) - 1)) + bitstr[Len(bitstr)]

bitstrings_to_bytes(bitstrs) == [i \in DOMAIN bitstrs |-> bitstring_to_int(bitstrs[i])]

----------------------------------------------------------------------------
(* get_encoding_map: the store after the call and the reference returned   *)

GetEncodingMapNoCopy(store, ref) == [dicts |-> store, ref |-> ref]

get_encoding_map(store, ref) == [dicts |-> Append(store, store[ref]), ref |-> Len(store) + 1]

----------------------------------------------------------------------------
(* compress_message.  buf is [bitstr, final_bitstr], the two locals of the *)
(* loop.                                                                   *)

\* for num in encode_map[char]
RECURSIVE add_bits(_, _, _)
add_bits(buf, code, i) ==
    IF i > Len(code) THEN buf
    ELSE LET flushed == IF Len(buf.bitstr) = 8
                        THEN [bitstr |-> << >>, final_bitstr |-> Append(buf.final_bitstr, buf.bitstr)]
                        ELSE buf
         IN  add_bits([flushed EXCEPT !.bitstr = Append(@, code[i])], code, i + 1)

EncodeCharOrZero(buf, encode_map, char) ==
    add_bits(buf, IF char \in DOMAIN encode_map THEN encode_map[char] ELSE <<0>>, 1)

\* the body of "for char in message"
encode_char(buf, encode_map, char) ==
    IF char \in DOMAIN encode_map THEN add_bits(buf, encode_map[char], 1) ELSE buf

RECURSIVE encode_chars(_, _, _, _)
encode_chars(buf, encode_map, message, i) ==
    IF i > Len(message) THEN buf
    ELSE encode_chars(encode_char(buf, encode_map, message[i]), encode_map, message, i + 1)

RECURSIVE pad(_)
pad(bitstr) == IF Len(bitstr) # 8 THEN pad(Append(bitstr, 0)) ELSE bitstr

compress_message(store, ref, message) ==
    LET got == get_encoding_map(store, ref)
        encode_map == got.dicts[got.ref]
        buf == encode_chars([bitstr |-> << >>, final_bitstr |-> << >>],
                            encode_map, Append(message, ETB_CHAR), 1)
        final_bitstr == IF Len(buf.bitstr) < 8
                        THEN Append(buf.final_bitstr, pad(buf.bitstr))
                        ELSE buf.final_bitstr
    IN  bitstrings_to_bytes(final_bitstr)

----------------------------------------------------------------------------
(* decompress *)

RECURSIVE concat_bits(_, _)
concat_bits(compressed_msg, i) ==
    IF i > Len(compressed_msg) THEN << >>
    ELSE byte_to_bitstring(compressed_msg[i]) \o concat_bits(compressed_msg, i + 1)

\* lines 238-239
encoded_bits(compressed_msg) == concat_bits(compressed_msg, 1)

step_node(node, bit) ==
    IF bit = 0 /\ node.zero_child # None THEN node.zero_child[1]
    ELSE IF bit = 1 /\ node.one_child # None THEN node.one_child[1]
    ELSE node

RECURSIVE WalkPastEtb(_, _, _, _, _)
WalkPastEtb(root, node, encoded_msg, i, decoded_msg) ==
    IF i > Len(encoded_msg) THEN decoded_msg
    ELSE LET next == step_node(node, encoded_msg[i])
         IN  IF is_leaf(next)
             THEN WalkPastEtb(root, root, encoded_msg, i + 1,
                              IF next.char = ETB_CHAR THEN decoded_msg
                              ELSE Append(decoded_msg, next.char))
             ELSE WalkPastEtb(root, next, encoded_msg, i + 1, decoded_msg)

RECURSIVE WalkNoReset(_, _, _, _, _)
WalkNoReset(root, node, encoded_msg, i, decoded_msg) ==
    IF i > Len(encoded_msg) THEN decoded_msg
    ELSE LET next == step_node(node, encoded_msg[i])
         IN  IF is_leaf(next)
             THEN IF next.char = ETB_CHAR THEN decoded_msg
                  ELSE WalkNoReset(root, next, encoded_msg, i + 1,
                                   Append(decoded_msg, next.char))
             ELSE WalkNoReset(root, next, encoded_msg, i + 1, decoded_msg)

\* "for bit in encoded_msg" from bit i on, at node, with decoded_msg so far
RECURSIVE walk(_, _, _, _, _)
walk(root, node, encoded_msg, i, decoded_msg) ==
    IF i > Len(encoded_msg) THEN decoded_msg
    ELSE LET next == step_node(node, encoded_msg[i])
         IN  IF is_leaf(next)
             THEN IF next.char = ETB_CHAR THEN decoded_msg
                  ELSE walk(root, root, encoded_msg, i + 1, Append(decoded_msg, next.char))
             ELSE walk(root, next, encoded_msg, i + 1, decoded_msg)

\* the walk over a bit sequence from the root
decode_bits(root, encoded_msg) == walk(root, root, encoded_msg, 1, << >>)

\* self._trie_root is read at line 241: AttributeError when never assigned
decompress(root, compressed_msg) ==
    IF root = None THEN [raised |-> TRUE, decoded_msg |-> << >>]
    ELSE [raised |-> FALSE, decoded_msg |-> decode_bits(root[1], encoded_bits(compressed_msg))]

----------------------------------------------------------------------------
(* The dict store.  dicts[r] is the dict object that reference r names;    *)
(* encoding_map is the reference held in self._encoding_map.               *)

EncodingMap == dicts[encoding_map]

NoCall ==
    [op |-> "none", message |-> << >>, compressed_msg |-> << >>,
     decoded_msg |-> << >>, raised |-> FALSE]

\* __init__ up to the put of etb_node (lines 78-84)
Begin(text) ==
    /\ corpus = text
    /\ pc = "put"
    /\ chars = set(text)
    /\ leaves = heappush(<< >>, etb_node)
    /\ trie_root = None
    /\ dicts = << << >> >>
    /\ encoding_map = 1
    /\ held = {}
    /\ call = NoCall

\* one iteration of "for item in chars" (a set: any order)
PutLeaf ==
    /\ pc = "put" /\ Len(corpus) > 0 /\ chars # {}
    /\ \E item \in chars :
          /\ leaves' = heappush(leaves, HuffmanNode(item, count(corpus, item), None, None))
          /\ chars' = chars \ {item}
    /\ pc' = IF chars' = {} THEN "grow" ELSE "put"
    /\ UNCHANGED <<corpus, trie_root, encoding_map, dicts, held, call>>

\* grow_trie: one pass of "while trie.qsize() > 1"
GrowTrieMerge ==
    /\ pc = "grow" /\ Len(leaves) > 1
    /\ leaves' = Merge(leaves)
    /\ UNCHANGED <<corpus, pc, chars, trie_root, encoding_map, dicts, held, call>>

\* grow_trie returns trie.get(); the encoding map is a new dict
GrowTrieReturn ==
    /\ pc = "grow" /\ Len(leaves) <= 1
    /\ trie_root' = <<leaves[1]>>
    /\ leaves' = heappop(leaves)
    /\ dicts' = <<create_encoding_map(<<leaves[1]>>, << >>)>>
    /\ encoding_map' = 1
    /\ pc' = "ready"
    /\ UNCHANGED <<corpus, chars, held, call>>

\* the else branch: no trie is built and _trie_root is never assigned
EmptyCorpus ==
    /\ pc = "put" /\ Len(corpus) = 0
    /\ dicts' = <<(ETB_CHAR :> <<0>>)>>
    /\ encoding_map' = 1
    /\ pc' = "ready"
    /\ UNCHANGED <<corpus, chars, leaves, trie_root, held, call>>

Construct == PutLeaf \/ GrowTrieMerge \/ GrowTrieReturn \/ EmptyCorpus

Ready == pc = "ready"

CompressMessage(message) ==
    /\ Ready
    /\ call' = [op |-> "compress", message |-> message,
                compressed_msg |-> compress_message(dicts, encoding_map, message),
                decoded_msg |-> << >>, raised |-> FALSE]
    /\ UNCHANGED <<corpus, pc, chars, leaves, trie_root, encoding_map, dicts, held>>

Decompress(compressed_msg) ==
    /\ Ready
    /\ LET got == decompress(trie_root, compressed_msg)
       IN  call' = [op |-> "decompress", message |-> << >>,
                    compressed_msg |-> compressed_msg,
                    decoded_msg |-> got.decoded_msg, raised |-> got.raised]
    /\ UNCHANGED <<corpus, pc, chars, leaves, trie_root, encoding_map, dicts, held>>

\* decompress applied to what compress_message has just returned
DecompressOutput ==
    /\ Ready /\ call.op = "compress"
    /\ LET got == decompress(trie_root, call.compressed_msg)
       IN  call' = [call EXCEPT !.op = "roundtrip",
                                !.decoded_msg = got.decoded_msg, !.raised = got.raised]
    /\ UNCHANGED <<corpus, pc, chars, leaves, trie_root, encoding_map, dicts, held>>

\* a caller keeps the dict get_encoding_map returns
GetEncodingMap ==
    /\ Ready /\ Len(dicts) <= MaxHeld
    /\ LET got == get_encoding_map(dicts, encoding_map)
       IN  /\ dicts' = got.dicts
           /\ held' = held \cup {got.ref}
    /\ UNCHANGED <<corpus, pc, chars, leaves, trie_root, encoding_map, call>>

\* the caller assigns d[key] = "11" in a dict it holds
CallerSetsKey ==
    /\ Ready
    /\ \E ref \in held, key \in CallerKeys :
          dicts' = [dicts EXCEPT ![ref] = (key :> <<1, 1>>) @@ @]
    /\ UNCHANGED <<corpus, pc, chars, leaves, trie_root, encoding_map, held, call>>

\* the caller runs del d[key] on a dict it holds
CallerDeletesKey ==
    /\ Ready
    /\ \E ref \in held :
          \E key \in CallerKeys \cap DOMAIN dicts[ref] :
             dicts' = [dicts EXCEPT ![ref] = [k \in (DOMAIN @) \ {key} |-> @[k]]]
    /\ UNCHANGED <<corpus, pc, chars, leaves, trie_root, encoding_map, held, call>>

InitBuild == \E text \in SeqsUpTo(Alphabet, MaxCorpusLen) : Begin(text)

NextBuild == Construct

SpecBuild == InitBuild /\ [][NextBuild]_vars

Init == \E text \in SeqsUpTo(TextAlphabet, MaxTrainLen) : Begin(text)

\* construction, then one call on the new codec (and the round trip of a
\* compress_message); sequences of calls are SpecCaller's
Next ==
    \/ Construct
    \/ /\ call.op = "none"
       /\ \E message \in SeqsUpTo(TextAlphabet, MaxMsgLen) : CompressMessage(message)
    \/ /\ call.op = "none"
       /\ \E compressed_msg \in SeqsUpTo(ByteValues, MaxBytes) : Decompress(compressed_msg)
    \/ DecompressOutput

Spec == Init /\ [][Next]_vars

InitCaller == \E text \in SeqsUpTo(CallerAlphabet, MaxCallerCorpusLen) : Begin(text)

NextCaller ==
    \/ Construct
    \/ GetEncodingMap
    \/ CallerSetsKey
    \/ CallerDeletesKey
    \/ \E message \in SeqsUpTo(CallerAlphabet, MaxCallerMsgLen) : CompressMessage(message)
    \/ \E compressed_msg \in SeqsUpTo(ByteValues, 1) : Decompress(compressed_msg)

SpecCaller == InitCaller /\ [][NextCaller]_vars

----------------------------------------------------------------------------
(* Reference definitions used to state the properties *)

IsPrefix(s, t) == Len(s) <= Len(t) /\ \A i \in 1..Len(s) : s[i] = t[i]

\* the (character, codeword) pairs of the leaves below node
RECURSIVE LeafCodes(_, _)
LeafCodes(node, path) ==
    IF is_leaf(node) THEN {[char |-> node.char, code |-> path]}
    ELSE LeafCodes(node.zero_child[1], Append(path, 0))
         \cup LeafCodes(node.one_child[1], Append(path, 1))

OccursAt(code, bits, i) ==
    /\ code # << >>
    /\ i + Len(code) - 1 <= Len(bits)
    /\ \A j \in 1..Len(code) : bits[i + j - 1] = code[j]

\* Reading bits from position i as a sequence of codewords: the characters
\* of the complete codewords before the first sentinel codeword, whether a
\* sentinel codeword was met, and the last bit of the last complete codeword.
RECURSIVE Parse(_, _, _, _)
Parse(codes, bits, i, out) ==
    LET here == {c \in codes : OccursAt(c.code, bits, i)}
    IN  IF here = {} THEN [chars |-> out, etb |-> FALSE, end |-> i - 1]
        ELSE LET c == CHOOSE c \in here : TRUE
             IN  IF c.char = ETB_CHAR
                 THEN [chars |-> out, etb |-> TRUE, end |-> i + Len(c.code) - 1]
                 ELSE Parse(codes, bits, i + Len(c.code), Append(out, c.char))

ParseCall ==
    Parse(LeafCodes(trie_root[1], << >>), encoded_bits(call.compressed_msg), 1, << >>)

RECURSIVE StreamBits(_, _, _)
StreamBits(map, message, i) ==
    IF i > Len(message) THEN << >>
    ELSE (IF message[i] \in DOMAIN map THEN map[message[i]] ELSE << >>)
         \o StreamBits(map, message, i + 1)

\* codewords of the message, then the sentinel's, then 0-7 zero bits, cut
\* into bytes
ExpectedWire(map, message) ==
    LET stream == StreamBits(map, Append(message, ETB_CHAR), 1)
        npad == (8 - (Len(stream) % 8)) % 8
        padded == stream \o [i \in 1..npad |-> 0]
    IN  [k \in 1..(Len(padded) \div 8) |->
            bitstring_to_int(SubSeq(padded, 8 * k - 7, 8 * k))]

RECURSIVE SumFreq(_, _)
SumFreq(trie, i) == IF i > Len(trie) THEN 0 ELSE trie[i].freq + SumFreq(trie, i + 1)

RECURSIVE Ascending(_)
Ascending(S) ==
    IF S = {} THEN << >>
    ELSE LET least == CHOOSE x \in S : \A y \in S : x <= y
         IN  <<least>> \o Ascending(S \ {least})

RECURSIVE PutAll(_, _, _, _)
PutAll(heap, order, text, i) ==
    IF i > Len(order) THEN heap
    ELSE PutAll(heappush(heap, HuffmanNode(order[i], count(text, order[i]), None, None)),
                order, text, i + 1)

\* the codec built when the distinct characters are put in ascending order
AscendingTrie(text) ==
    IF Len(text) = 0 THEN None
    ELSE <<grow_trie(PutAll(heappush(<< >>, etb_node), Ascending(set(text)), text, 1))>>

AscendingMap(text) ==
    IF Len(text) = 0 THEN (ETB_CHAR :> <<0>>)
    ELSE create_encoding_map(AscendingTrie(text), << >>)

----------------------------------------------------------------------------
(* Claims *)

\* C1: decompress(compress_message(M)) = M for every message M made of
\* characters of the corpus, the sentinel excepted, whatever the number of
\* encoded bits.  (Stated for the non-empty corpora; the empty corpus, whose
\* only such message is "", is C3.)
RoundTrip ==
    (/\ call.op = "roundtrip"
     /\ Len(corpus) > 0
     /\ set(call.message) \subseteq set(corpus)
     /\ ETB_CHAR \notin set(call.message))
    => (~call.raised /\ call.decoded_msg = call.message)

\* C2: the bytes compress_message returns are the codewords of the message
\* in order, the sentinel's codeword and 0-7 zero bits, MSB first: every
\* codeword bit is there and there are ceil(L/8) bytes.
WireFormat ==
    call.op \in {"compress", "roundtrip"}
    => call.compressed_msg = ExpectedWire(EncodingMap, call.message)

\* C3: the codec of the empty corpus has the map {sentinel: "0"}, and
\* decompress(compress_message("")) returns "" without raising.
EmptyCorpusRoundTrip ==
    (Ready /\ corpus = << >>)
    => /\ EncodingMap = (ETB_CHAR :> <<0>>)
       /\ (call.op = "roundtrip" /\ call.message = << >>)
          => (~call.raised /\ call.decoded_msg = << >>)

\* C4 (as stated): whatever the corpus and the order in which its distinct
\* characters are put in the queue, construction gives the same trie and the
\* same encoding map (those of the ascending order, which depend on the
\* character counts alone).
Determinism ==
    Ready => (trie_root = AscendingTrie(corpus) /\ EncodingMap = AscendingMap(corpus))

\* C4 (amended): the same, for corpora that do not contain the sentinel.
DeterminismWithoutSentinel ==
    (Ready /\ ETB_CHAR \notin set(corpus))
    => (trie_root = AscendingTrie(corpus) /\ EncodingMap = AscendingMap(corpus))

DeterminismWitness ==
    /\ Ready /\ ETB_CHAR \notin set(corpus)
    /\ Cardinality(set(corpus)) >= 4
    /\ \E c \in set(corpus), d \in set(corpus) :
          c # d /\ count(corpus, c) = count(corpus, d)
    /\ ~is_leaf(trie_root[1].zero_child[1]) /\ ~is_leaf(trie_root[1].one_child[1])

\* C5: the encoding map has one non-empty codeword for each character of the
\* corpus and for the sentinel, and no codeword is a prefix of another.
PrefixCode ==
    Ready
    => /\ DOMAIN EncodingMap = set(corpus) \cup {ETB_CHAR}
       /\ \A c \in DOMAIN EncodingMap : EncodingMap[c] # << >>
       /\ \A c \in DOMAIN EncodingMap, d \in DOMAIN EncodingMap :
             c # d => ~IsPrefix(EncodingMap[c], EncodingMap[d])

PrefixCodeWitness ==
    /\ Ready
    /\ Cardinality(DOMAIN EncodingMap) >= 4
    /\ \E c \in DOMAIN EncodingMap, d \in DOMAIN EncodingMap :
          Len(EncodingMap[c]) = 1 /\ Len(EncodingMap[d]) >= 3

\* C6: compress_message does not fail on characters that have no codeword,
\* and returns what it returns for the message without them.
UnknownCharsOmitted ==
    call.op \in {"compress", "roundtrip"}
    => LET Known(c) == c \in DOMAIN EncodingMap
       IN  call.compressed_msg
             = compress_message(dicts, encoding_map, SelectSeq(call.message, Known))

UnknownCharsWitness ==
    /\ call.op = "compress" /\ Len(corpus) > 0
    /\ \E i \in DOMAIN call.message, j \in DOMAIN call.message :
          /\ i < j
          /\ call.message[i] \notin DOMAIN EncodingMap
          /\ call.message[j] \in DOMAIN EncodingMap
    /\ Len(call.compressed_msg) >= 1

\* C7: no call and no change a caller makes to a dict it was handed changes
\* the codec's encoding map or trie, and a call repeated with the same
\* argument returns what it returned before.
Immutable ==
    [][Ready =>
        /\ dicts'[encoding_map'] = dicts[encoding_map]
        /\ trie_root' = trie_root
        /\ (call.op = "compress" /\ call'.op = "compress" /\ call'.message = call.message)
           => call'.compressed_msg = call.compressed_msg
        /\ (/\ call.op = "decompress" /\ call'.op = "decompress"
            /\ call'.compressed_msg = call.compressed_msg)
           => (call'.decoded_msg = call.decoded_msg /\ call'.raised = call.raised)]_vars

ImmutableWitness ==
    /\ Ready /\ call.op = "compress" /\ Len(corpus) > 0
    /\ \E ref \in held :
          /\ dicts[ref] # EncodingMap
          /\ compress_message(dicts, ref, call.message) # call.compressed_msg
    /\ call.compressed_msg = compress_message(dicts, encoding_map, call.message)

\* C8: with a non-empty corpus, decompress returns what was decoded when
\* the walk first reaches the sentinel and reads no bit after it: the
\* result is the same whatever bits or bytes follow.
StopsAtSentinel ==
    (Ready /\ Len(corpus) > 0 /\ call.op \in {"decompress", "roundtrip"})
    => LET bits == encoded_bits(call.compressed_msg)
           p == ParseCall
       IN  p.etb
           => /\ ~call.raised
              /\ call.decoded_msg = p.chars
              /\ \A ext \in SeqsUpTo({0, 1}, MaxExtBits) :
                    decode_bits(trie_root[1], SubSeq(bits, 1, p.end) \o ext)
                      = call.decoded_msg
              /\ \A more \in ByteValues :
                    decompress(trie_root, Append(call.compressed_msg, more)).decoded_msg
                      = call.decoded_msg

StopsAtSentinelWitness ==
    /\ Ready /\ Len(corpus) > 0 /\ call.op = "decompress"
    /\ ParseCall.etb
    /\ call.decoded_msg # << >>
    /\ ParseCall.end <= 8
    /\ Len(call.compressed_msg) = 2 /\ call.compressed_msg[2] = 255

\* C9: with a non-empty corpus and bytes whose bits never reach the
\* sentinel, decompress does not raise and returns the characters of the
\* complete codewords, dropping an incomplete last one.
Unterminated ==
    (Ready /\ Len(corpus) > 0 /\ call.op \in {"decompress", "roundtrip"})
    => (~ParseCall.etb => (~call.raised /\ call.decoded_msg = ParseCall.chars))

UnterminatedWitness ==
    /\ Ready /\ Len(corpus) > 0 /\ call.op = "decompress"
    /\ ~ParseCall.etb
    /\ call.decoded_msg # << >>
    /\ ParseCall.end < 8 * Len(call.compressed_msg)

\* C10: for a corpus without the sentinel, at every pass of the merge loop
\* the queued nodes have distinct characters (so no two tie in the order),
\* each is a leaf or has two children, and their frequencies add up to
\* len(corpus) + 1, the frequency of the root that is returned.
MergeLoopInvariant ==
    ETB_CHAR \notin set(corpus)
    => /\ pc = "grow"
          => /\ \A i \in DOMAIN leaves, j \in DOMAIN leaves :
                   i # j => /\ leaves[i].char # leaves[j].char
                            /\ Lt(leaves[i], leaves[j]) \/ Lt(leaves[j], leaves[i])
             /\ \A i \in DOMAIN leaves :
                   \/ is_leaf(leaves[i])
                   \/ (Len(leaves[i].zero_child) = 1 /\ Len(leaves[i].one_child) = 1)
             /\ SumFreq(leaves, 1) = Len(corpus) + 1
       /\ (Ready /\ Len(corpus) > 0) => trie_root[1].freq = Len(corpus) + 1

MergeLoopWitness ==
    /\ ETB_CHAR \notin set(corpus)
    /\ pc = "grow" /\ Len(leaves) >= 3
    /\ \E i \in DOMAIN leaves, j \in DOMAIN leaves :
          /\ ~is_leaf(leaves[i]) /\ is_leaf(leaves[j])
          /\ leaves[i].freq = leaves[j].freq

====
